---- MODULE Spec2Model ----
(***************************************************************************)
(* Model of seal/task/attribute_recognition.py:                            *)
(* InstanceAttributeRecognitionTask.prepare / train / eval / run.          *)
(*                                                                         *)
(* mAP values are modelled on an integer grid 0..MaxMAP (only their order  *)
(* matters to the code).  Learning rates are integers in units of 1e-9,   *)
(* so the scheduler's eps of 1e-8 is 10 units and factor 0.1 is \div 10.   *)
(* A parameter state of the model is [run, after]: the run that produced   *)
(* it and the number of train steps it has been through.                   *)
(***************************************************************************)
EXTENDS Integers, Sequences, FiniteSets, TLC

\* ---- bounds --------------------------------------------------------------
MaxEpochs == 4
MaxMAP == 2
MaxBatch == 2

MapValues == 0..MaxMAP
BatchSizes == 1..MaxBatch
\* initial learning rates handed out by model.get_optimizer(): 1e-6, 1e-4
LrInits == {1000, 100000}
Modes == {"train", "test", "deploy"}

VARIABLES
    mode, epochs, trainBatch, evalBatch,   \* constructor / settings
    pc,                                    \* position in prepare/run
    built,                                 \* components constructed by prepare, in order
    model,                                 \* parameter state of self.model
    file,                                  \* content of {d_weight}/{project}-model-highest.pth
    epoch, highest_mAP, mAP,               \* locals of train()
    evalMAP,                               \* what evaluation.get_mAP() would return
    lr, lr0, schedBest, schedSeq, reducedAt, \* optimizer rate and scheduler
    nUtil,                                 \* number of train_util calls
    valSeq,                                \* validation mAPs read so far
    writes, failed,                        \* epochs (1-based) that attempted / failed a save
    calls,                                 \* invocations of the evaluation object
    modelAtEval,                           \* parameter state when eval() was entered
    reported                               \* <<test_mAP>> once train() has reported

vars == <<mode, epochs, trainBatch, evalBatch, pc, built, model, file, epoch,
          highest_mAP, mAP, evalMAP, lr, lr0, schedBest, schedSeq, reducedAt,
          nUtil, valSeq, writes, failed, calls, modelAtEval, reported>>

\* ---- parameter states and file contents ------------------------------------
InitState == [run |-> "this", after |-> 0]
PriorState == [run |-> "prior", after |-> 0]
NoState == [run |-> "none", after |-> 0]

Absent == [kind |-> "absent", st |-> NoState]
Corrupt == [kind |-> "corrupt", st |-> NoState]
Saved(s) == [kind |-> "state", st |-> s]

\* ---- prepare ---------------------------------------------------------------
Comp(k, n, a, b) == [kind |-> k, name |-> n, arg |-> a, batch |-> b]

ValidMode_Any(m) == TRUE

\* line 23: self.mode not in ["train", "test"] raises
ValidMode(m) == m \in {"train", "test"}

\* lines 26-29: model, evaluation, train_util
CoreSteps ==
    << Comp("model", "model", "", 0),
       Comp("evaluation", "evaluation", "", 0),
       Comp("train_util", "train_util", "", 0) >>

TrainBranch_EvalBatch(tb, eb) ==
    << Comp("pipeline", "train", "", 0),
       Comp("pipeline", "evalu", "", 0),
       Comp("dataset", "train", "train", 0),
       Comp("dataset", "val", "evalu", 0),
       Comp("dataset", "test", "evalu", 0),
       Comp("loader", "train", "train", tb),
       Comp("loader", "val", "val", tb),
       Comp("loader", "test", "test", eb) >>

\* lines 33-87: two pipelines, three datasets, three loaders
TrainBranch(tb, eb) ==
    << Comp("pipeline", "train", "", 0),
       Comp("pipeline", "evalu", "", 0),
       Comp("dataset", "train", "train", 0),
       Comp("dataset", "val", "evalu", 0),
       Comp("dataset", "test", "evalu", 0),
       Comp("loader", "train", "train", tb),
       Comp("loader", "val", "val", tb),
       Comp("loader", "test", "test", tb) >>

\* lines 91-115: one pipeline, one dataset, one loader
TestBranch(tb, eb) ==
    << Comp("pipeline", "evalu", "", 0),
       Comp("dataset", "test", "evalu", 0),
       Comp("loader", "test", "test", eb) >>

\* the constructions prepare performs, in program order
PrepareSteps(m, tb, eb) ==
    CoreSteps \o (IF m = "train" THEN TrainBranch(tb, eb) ELSE TestBranch(tb, eb))

Built(k) == {built[i] : i \in {j \in 1..Len(built) : built[j].kind = k}}

\* prepare(): f = 0 is a run in which every builder lookup succeeds; f > 0
\* is a run whose f-th builder lookup raises (unregistered name).
Prepare ==
    /\ pc = "new"
    /\ IF ~ValidMode(mode)
       THEN /\ pc' = "error"
            /\ built' = built
       ELSE \E f \in 0..Len(PrepareSteps(mode, trainBatch, evalBatch)) :
              IF f = 0
              THEN /\ built' = PrepareSteps(mode, trainBatch, evalBatch)
                   /\ pc' = "prepared"
              ELSE /\ built' = SubSeq(PrepareSteps(mode, trainBatch, evalBatch), 1, f - 1)
                   /\ pc' = "error"
    /\ UNCHANGED <<mode, epochs, trainBatch, evalBatch, model, file, epoch,
                   highest_mAP, mAP, evalMAP, lr, lr0, schedBest, schedSeq,
                   reducedAt, nUtil, valSeq, writes, failed, calls,
                   modelAtEval, reported>>

\* ---- run / train -----------------------------------------------------------
\* run() with mode = train: lines 120-124 of train()
RunTrain ==
    /\ pc = "prepared"
    /\ mode = "train"
    /\ highest_mAP' = 0
    /\ epoch' = 0
    /\ pc' = "train_util"
    /\ UNCHANGED <<mode, epochs, trainBatch, evalBatch, built, model, file,
                   mAP, evalMAP, lr, lr0, schedBest, schedSeq, reducedAt,
                   nUtil, valSeq, writes, failed, calls, modelAtEval, reported>>

\* line 127: one epoch of optimisation changes the parameters
TrainUtil ==
    /\ pc = "train_util"
    /\ model' = [run |-> "this", after |-> model.after + 1]
    /\ nUtil' = nUtil + 1
    /\ pc' = "validate"
    /\ UNCHANGED <<mode, epochs, trainBatch, evalBatch, built, file, epoch,
                   highest_mAP, mAP, evalMAP, lr, lr0, schedBest, schedSeq,
                   reducedAt, valSeq, writes, failed, calls, modelAtEval,
                   reported>>

\* the evaluation object's signature, (model, dataloader): how positional
\* arguments are bound to its parameters
EvaluationBind(positional) ==
    [model |-> positional[1], dataloader |-> positional[2]]

\* lines 128-129: evaluation(model=..., dataloader=valloader); get_mAP()
Validate ==
    /\ pc = "validate"
    /\ calls' = Append(calls, [site |-> "val", model |-> "model", dataloader |-> "valloader"])
    /\ \E v \in MapValues :
         /\ evalMAP' = v
         /\ mAP' = v
         /\ valSeq' = Append(valSeq, v)
    /\ pc' = "sched"
    /\ UNCHANGED <<mode, epochs, trainBatch, evalBatch, built, model, file,
                   epoch, highest_mAP, lr, lr0, schedBest, schedSeq,
                   reducedAt, nUtil, writes, failed, modelAtEval, reported>>

\* ReduceLROnPlateau(optimizer, 'max', patience=0, factor=0.1, threshold=0)
NegInf == -1
Patience == 0
FactorDiv == 10
Eps == 10
MinLr == 0

IsBetter_OrEqual(a, best) == a >= best

\* mode 'max', threshold 0: a > best * (1 + threshold)
IsBetter(a, best) == a > best

Max2(a, b) == IF a >= b THEN a ELSE b

\* _reduce_lr: new = max(old * factor, min_lr), applied only if old - new > eps
ReduceLr(old) ==
    IF old - Max2(old \div FactorDiv, MinLr) > Eps
    THEN Max2(old \div FactorDiv, MinLr)
    ELSE old

\* line 131: scheduler.step(validation_mAP); with patience 0 one bad epoch
\* (num_bad_epochs = 1 > patience) reduces the rate and resets the count
SchedulerStep ==
    /\ pc = "sched"
    /\ schedSeq' = Append(schedSeq, mAP)
    /\ IF IsBetter(mAP, schedBest)
       THEN /\ schedBest' = mAP
            /\ lr' = lr
            /\ reducedAt' = reducedAt
       ELSE /\ schedBest' = schedBest
            /\ IF 1 > Patience
               THEN /\ lr' = ReduceLr(lr)
                    /\ reducedAt' = IF lr' # lr THEN reducedAt \cup {epoch + 1}
                                    ELSE reducedAt
               ELSE /\ lr' = lr
                    /\ reducedAt' = reducedAt
    /\ pc' = "decide"
    /\ UNCHANGED <<mode, epochs, trainBatch, evalBatch, built, model, file,
                   epoch, highest_mAP, mAP, evalMAP, lr0, nUtil, valSeq,
                   writes, failed, calls, modelAtEval, reported>>

ShouldSave_OrEqual(m, h) == m >= h

\* line 133
ShouldSave(m, h) == m > h

OnSaveException_Propagate(cont) == "error"

\* lines 138-139: bare except, print, fall through to the next iteration
OnSaveException(cont) == cont

\* line 126: next iteration of range(epochs), or leave the loop
LoopNext(e, n) == IF e + 1 < n THEN "train_util" ELSE "reload"

\* content of the file after torch.save raised: untouched (the path could
\* not be opened) or a partial, unreadable file (the write broke off)
FailedSaveContents(old) == {old, Corrupt}

\* lines 133-139: checkpoint decision and save
SaveCheckpoint ==
    /\ pc = "decide"
    /\ IF ShouldSave(mAP, highest_mAP)
       THEN /\ highest_mAP' = mAP
            /\ writes' = writes \cup {epoch + 1}
            /\ \/ /\ file' = Saved(model)
                  /\ failed' = failed
                  /\ pc' = LoopNext(epoch, epochs)
               \/ /\ file' \in FailedSaveContents(file)
                  /\ failed' = failed \cup {epoch + 1}
                  /\ pc' = OnSaveException(LoopNext(epoch, epochs))
       ELSE /\ pc' = LoopNext(epoch, epochs)
            /\ UNCHANGED <<highest_mAP, writes, failed, file>>
    /\ epoch' = epoch + 1
    /\ UNCHANGED <<mode, epochs, trainBatch, evalBatch, built, model, mAP,
                   evalMAP, lr, lr0, schedBest, schedSeq, reducedAt, nUtil,
                   valSeq, calls, modelAtEval, reported>>

\* lines 144-146: torch.load by path, strict load_state_dict; not guarded
Reload ==
    /\ pc = "reload"
    /\ IF file.kind = "state"
       THEN /\ model' = file.st
            /\ pc' = "test_eval"
       ELSE /\ model' = model
            /\ pc' = "error"
    /\ UNCHANGED <<mode, epochs, trainBatch, evalBatch, built, file, epoch,
                   highest_mAP, mAP, evalMAP, lr, lr0, schedBest, schedSeq,
                   reducedAt, nUtil, valSeq, writes, failed, calls,
                   modelAtEval, reported>>

\* line 147: evaluation(model=..., dataloader=testloader)
TestEval ==
    /\ pc = "test_eval"
    /\ calls' = Append(calls, [site |-> "test", model |-> "model", dataloader |-> "testloader"])
    /\ \E v \in MapValues : evalMAP' = v
    /\ pc' = "report"
    /\ UNCHANGED <<mode, epochs, trainBatch, evalBatch, built, model, file,
                   epoch, highest_mAP, mAP, lr, lr0, schedBest, schedSeq,
                   reducedAt, nUtil, valSeq, writes, failed, modelAtEval,
                   reported>>

ReportedTestMAP_Fresh(m, e) == e

\* line 148: res_dict = {"test_mAP": mAP}
ReportedTestMAP(m, e) == m

\* lines 148-150
Report ==
    /\ pc = "report"
    /\ reported' = <<ReportedTestMAP(mAP, evalMAP)>>
    /\ pc' = "done"
    /\ UNCHANGED <<mode, epochs, trainBatch, evalBatch, built, model, file,
                   epoch, highest_mAP, mAP, evalMAP, lr, lr0, schedBest,
                   schedSeq, reducedAt, nUtil, valSeq, writes, failed, calls,
                   modelAtEval>>

\* ---- run / eval ------------------------------------------------------------
\* run() with mode # train: enter eval()
RunEval ==
    /\ pc = "prepared"
    /\ mode # "train"
    /\ modelAtEval' = model
    /\ pc' = "eval_load"
    /\ UNCHANGED <<mode, epochs, trainBatch, evalBatch, built, model, file,
                   epoch, highest_mAP, mAP, evalMAP, lr, lr0, schedBest,
                   schedSeq, reducedAt, nUtil, valSeq, writes, failed, calls,
                   reported>>

EvalLoad_Unguarded(f, m) ==
    IF f.kind = "state" THEN [pc |-> "eval_call", model |-> f.st]
    ELSE [pc |-> "error", model |-> m]

\* lines 155-165: try: torch.load + non-strict load_state_dict; except: print
EvalLoad(f, m) ==
    IF f.kind = "state" THEN [pc |-> "eval_call", model |-> f.st]
    ELSE [pc |-> "eval_call", model |-> m]

LoadCheckpoint ==
    /\ pc = "eval_load"
    /\ pc' = EvalLoad(file, model).pc
    /\ model' = EvalLoad(file, model).model
    /\ UNCHANGED <<mode, epochs, trainBatch, evalBatch, built, file, epoch,
                   highest_mAP, mAP, evalMAP, lr, lr0, schedBest, schedSeq,
                   reducedAt, nUtil, valSeq, writes, failed, calls,
                   modelAtEval, reported>>

\* line 169: self.evaluation(self.testloader, self.model), positional
EvalCall ==
    /\ pc = "eval_call"
    /\ calls' = Append(calls, [site |-> "eval"] @@ EvaluationBind(<<"testloader", "model">>))
    /\ \E v \in MapValues : evalMAP' = v
    /\ pc' = "done"
    /\ UNCHANGED <<mode, epochs, trainBatch, evalBatch, built, model, file,
                   epoch, highest_mAP, mAP, lr, lr0, schedBest, schedSeq,
                   reducedAt, nUtil, valSeq, writes, failed, modelAtEval,
                   reported>>

\* ---- specification -----------------------------------------------------------
Init ==
    /\ mode \in Modes
    /\ epochs \in 1..MaxEpochs
    /\ trainBatch \in BatchSizes
    /\ evalBatch \in BatchSizes
    /\ pc = "new"
    /\ built = <<>>
    /\ model = InitState
    /\ file \in {Absent, Corrupt, Saved(PriorState)}
    /\ epoch = 0
    /\ highest_mAP = 0
    /\ mAP = 0
    /\ evalMAP = 0
    /\ lr0 \in LrInits
    /\ lr = lr0
    /\ schedBest = NegInf
    /\ schedSeq = <<>>
    /\ reducedAt = {}
    /\ nUtil = 0
    /\ valSeq = <<>>
    /\ writes = {}
    /\ failed = {}
    /\ calls = <<>>
    /\ modelAtEval = NoState
    /\ reported = <<>>

Next ==
    \/ Prepare
    \/ RunTrain
    \/ TrainUtil
    \/ Validate
    \/ SchedulerStep
    \/ SaveCheckpoint
    \/ Reload
    \/ TestEval
    \/ Report
    \/ RunEval
    \/ LoadCheckpoint
    \/ EvalCall

Spec == Init /\ [][Next]_vars

TypeOK ==
    /\ pc \in {"new", "prepared", "error", "train_util", "validate", "sched",
               "decide", "reload", "test_eval", "report", "eval_load",
               "eval_call", "done"}
    /\ epoch \in 0..epochs
    /\ file.kind \in {"absent", "corrupt", "state"}

\* ---- properties --------------------------------------------------------------
\* parameter state the model had at the end of 1-based epoch e of this run
StateAfter(e) == [run |-> "this", after |-> e]

\* earliest 1-based epoch whose validation mAP is the maximum of s
BestEpoch(s) ==
    CHOOSE e \in 1..Len(s) :
        /\ \A j \in 1..Len(s) : s[j] <= s[e]
        /\ \A j \in 1..(e - 1) : s[j] < s[e]

AfterLoop == mode = "train" /\ pc \in {"reload", "test_eval", "report", "done"}

\* C1: when every checkpoint write succeeded, after the epoch loop the
\* checkpoint file exists and holds the parameter state of the (earliest)
\* epoch with the maximum validation mAP, zero mAPs included.
C1_BestCheckpointAfterLoop ==
    (AfterLoop /\ failed = {}) => file = Saved(StateAfter(BestEpoch(valSeq)))

\* C2: a checkpoint write happens in epoch e only if the validation mAP of e
\* is strictly greater than the validation mAP of every earlier epoch.
C2_WriteOnlyOnStrictImprovement ==
    \A e \in writes : \A j \in 1..(e - 1) : valSeq[e] > valSeq[j]

C2_Witness ==
    /\ pc = "reload"
    /\ Len(valSeq) = 3
    /\ 0 < valSeq[1] /\ valSeq[1] < valSeq[2] /\ valSeq[3] < valSeq[2]
    /\ writes = {1, 2}

\* C3: when train() gets to its test evaluation, the model carries the
\* parameter state of the epoch with the highest validation mAP of this run,
\* whatever the mAP sequence and the outcomes of the checkpoint writes.
C3_TestOnBestState ==
    (mode = "train" /\ pc \in {"test_eval", "report", "done"})
        => model = StateAfter(BestEpoch(valSeq))

AllEpochsRan ==
    AfterLoop => /\ nUtil = epochs
                 /\ Len(valSeq) = epochs
                 /\ Len(schedSeq) = epochs

\* C4 (as stated): a failed checkpoint write does not end train() with an
\* error, leaves the file with the content it had before the write, and the
\* remaining epochs still run train step, validation and scheduler step.
C4_FailedSaveKeepsFile ==
    /\ [][failed' # failed => (pc' # "error" /\ file' = file)]_vars
    /\ []AllEpochsRan

\* C4 (amended): a failed checkpoint write does not end train() with an
\* error, leaves the file either with its previous content or unreadable
\* (never with a new readable state), and the remaining epochs still run
\* train step, validation and scheduler step.
C4_FailedSaveIsCaught ==
    /\ [][failed' # failed => (pc' # "error" /\ file' \in {file, Corrupt})]_vars
    /\ []AllEpochsRan

C4_Witness ==
    /\ pc = "reload"
    /\ \E e \in failed : e < epochs
    /\ nUtil = epochs

\* C5: eval() with an absent or unreadable checkpoint does not raise, leaves
\* the model's parameters as they were when eval() was called, and then
\* invokes the evaluation object exactly once, with the test loader and the
\* model.
C5_EvalFallsBack ==
    (modelAtEval # NoState /\ file.kind # "state") =>
        /\ pc \in {"eval_load", "eval_call", "done"}
        /\ model = modelAtEval
        /\ pc # "done" => calls = <<>>
        /\ pc = "done" =>
              /\ Len(calls) = 1
              /\ calls[1].site = "eval"
              /\ {calls[1].model, calls[1].dataloader} = {"testloader", "model"}

C5_Witness ==
    /\ pc = "done"
    /\ mode = "test"
    /\ file.kind = "absent"
    /\ Len(calls) = 1

\* C6: prepare() with a mode other than train or test ends in an error
\* before any builder is invoked: nothing is constructed, the state is
\* unchanged.
C6_InvalidModeBuildsNothing ==
    mode \notin {"train", "test"} =>
        /\ pc \in {"new", "error"}
        /\ built = <<>>
        /\ model = InitState
        /\ calls = <<>>

C6_Witness == mode = "deploy" /\ pc = "error"

CountKind(k) == Cardinality({i \in 1..Len(built) : built[i].kind = k})
Names(k) == {c.name : c \in Built(k)}

\* C7: a successful prepare() in train mode constructs exactly three loaders
\* (train, val, test), three datasets and two pipelines (train, evalu), the
\* loaders all with the train settings' batch size; in test mode exactly one
\* loader (test), one dataset and one pipeline (evalu), with the evaluation
\* settings' batch size.
C7_PrepareConstructs ==
    pc \notin {"new", "error"} =>
        IF mode = "train"
        THEN /\ CountKind("loader") = 3 /\ Names("loader") = {"train", "val", "test"}
             /\ CountKind("dataset") = 3 /\ Names("dataset") = {"train", "val", "test"}
             /\ CountKind("pipeline") = 2 /\ Names("pipeline") = {"train", "evalu"}
             /\ \A l \in Built("loader") : l.batch = trainBatch
        ELSE /\ CountKind("loader") = 1 /\ Names("loader") = {"test"}
             /\ CountKind("dataset") = 1 /\ Names("dataset") = {"test"}
             /\ CountKind("pipeline") = 1 /\ Names("pipeline") = {"evalu"}
             /\ \A l \in Built("loader") : l.batch = evalBatch

C7_Witness == pc = "prepared" /\ mode = "train" /\ trainBatch # evalBatch

\* C8: in every invocation of the evaluation object the model parameter is
\* bound to the task's model and the dataloader parameter to a loader: the
\* val loader in the per-epoch call, the test loader in the other two.
C8_CallsFollowContract ==
    \A i \in 1..Len(calls) :
        /\ calls[i].model = "model"
        /\ calls[i].dataloader = (IF calls[i].site = "val" THEN "valloader"
                                  ELSE "testloader")

\* 1-based epochs of s whose value is not strictly greater than the best of
\* the earlier ones
NonImproving(s) == {e \in 1..Len(s) : \E j \in 1..(e - 1) : s[j] >= s[e]}

RECURSIVE Pow10(_)
Pow10(k) == IF k = 0 THEN 1 ELSE 10 * Pow10(k - 1)

\* the scheduler is stepped once per epoch with that epoch's validation mAP,
\* after the validation and before the checkpoint decision
SchedulerOrder ==
    /\ Len(schedSeq) <= Len(valSeq)
    /\ schedSeq = SubSeq(valSeq, 1, Len(schedSeq))
    /\ pc = "sched" => (Len(valSeq) = epoch + 1 /\ Len(schedSeq) = epoch)
    /\ pc = "decide" => Len(schedSeq) = epoch + 1
    /\ AfterLoop => Len(schedSeq) = epochs
    /\ writes \subseteq 1..Len(schedSeq)

\* C9 (as stated): the scheduler is stepped once per epoch in that order and
\* the rate is reduced by one factor of 0.1 in exactly the non-improving
\* epochs, so that the number of reductions equals their number.
C9_ReducedInEveryNonImprovingEpoch ==
    /\ SchedulerOrder
    /\ reducedAt = NonImproving(schedSeq)
    /\ lr * Pow10(Cardinality(NonImproving(schedSeq))) = lr0

\* rate in force when the scheduler is stepped in 1-based epoch e
LrBefore(e) == lr0 \div Pow10(Cardinality({r \in reducedAt : r < e}))

\* C9 (amended): the scheduler is stepped once per epoch in that order and
\* the rate is reduced by one factor of 0.1 in exactly the non-improving
\* epochs in which the reduction exceeds the scheduler's eps of 1e-8; in the
\* other epochs it is unchanged, and the number of reductions is the number
\* of those epochs.
C9_ReducedWhileAboveEps ==
    /\ SchedulerOrder
    /\ \A e \in 1..Len(schedSeq) :
          e \in reducedAt <=>
              /\ e \in NonImproving(schedSeq)
              /\ LrBefore(e) - LrBefore(e) \div 10 > 10
    /\ reducedAt \subseteq 1..Len(schedSeq)
    /\ lr * Pow10(Cardinality(reducedAt)) = lr0

C9_Witness ==
    /\ pc = "reload"
    /\ reducedAt # {}
    /\ \E e \in NonImproving(schedSeq) : e \notin reducedAt

\* C10: the test_mAP that train() reports is the validation mAP of the last
\* epoch, not a value read from the evaluation object after the test pass.
C10_ReportsLastValidationMAP ==
    (mode = "train" /\ pc = "done") => reported = <<valSeq[epochs]>>

C10_Witness ==
    /\ mode = "train"
    /\ pc = "done"
    /\ reported # <<>>
    /\ evalMAP # reported[1]
====
